---- MODULE Spec2Model ----
(***************************************************************************)
(* The goroutine pool of concurrency/worker_unbuffed/main.go.              *)
(*                                                                         *)
(* New(maxGoroutines) starts maxGoroutines worker goroutines that range    *)
(* over the unbuffered channel p.work, call Task() on what they receive    *)
(* and send its result on the unbuffered channel p.errChan, which all      *)
(* workers and all Run callers share.  Run sends its Worker on p.work and  *)
(* then receives one value from p.errChan.  Shutdown closes both channels  *)
(* and waits on the WaitGroup.                                             *)
(*                                                                         *)
(* A send and its receive on an unbuffered channel are one step.  A        *)
(* receive from a closed channel yields the zero value at once, a send on  *)
(* a closed channel and a close of a closed channel panic.  A goroutine    *)
(* that panics stops there; the process ends some time later, and the      *)
(* other goroutines may take steps in between or none at all.              *)
(***************************************************************************)
EXTENDS Integers, Sequences, FiniteSets

VARIABLES
    maxGoroutines,  \* the argument of New: the number of worker goroutines
    names,          \* names[c] is the name of the namePrinter that Run call c submits
    workClosed,     \* p.work has been closed
    errClosed,      \* p.errChan has been closed
    wg,             \* the counter of p.wg
    wpc,            \* wpc[w]: where worker goroutine w stands
    wtask,          \* wtask[w]: the Run call whose Worker w holds (the loop variable w), 0 if none
    wval,           \* wval[w]: the value of w.Task() that worker w is about to send
    cpc,            \* cpc[c]: where Run call c stands
    cret,           \* cret[c]: the err that Run call c returned
    spc,            \* spc[s]: where Shutdown call s stands
    accepted,       \* history: accepted[c] counts the receptions of c's Worker from p.work
    finished,       \* history: finished[c] counts the returns of c's Task()
    cfrom           \* history: where cret[c] came from: "worker" (a worker's send) or
                    \* "closed" (the closed p.errChan)

vars == <<maxGoroutines, names, workClosed, errClosed, wg, wpc, wtask, wval,
          cpc, cret, spc, accepted, finished, cfrom>>

(***************************************************************************)
(* Bounds of the model.                                                    *)
(***************************************************************************)
MaxGoroutines == 2      \* New is called with 0..MaxGoroutines
MaxCalls == 3           \* at most MaxCalls Run calls
MaxShutdowns == 2       \* at most MaxShutdowns Shutdown calls

(***************************************************************************)
(* The program's data.                                                     *)
(***************************************************************************)
MainNames == <<"steve", "bob", "mary", "jason", "Bob", "Lee", "Jane">>

MainGoroutines == 2

NoError == "nil"

InvalidName == "Invalid name"

Outcomes == {NoError, InvalidName}

Task(name) == IF name = "jason" THEN InvalidName ELSE NoError

Workers == 1..maxGoroutines

Callers == 1..Len(names)

Shutdowns == 1..MaxShutdowns

(***************************************************************************)
(* A goroutine has panicked.  Nothing in the program recovers, so the Go   *)
(* runtime will end the process, but only some time after the panicking    *)
(* statement: until then the other goroutines run on, and may panic too.   *)
(* A goroutine that has panicked takes no further step of its own.         *)
(***************************************************************************)
Panicked ==
    \/ \E w \in Workers : wpc[w] = "panic"
    \/ \E c \in Callers : cpc[c] = "panic"
    \/ \E s \in Shutdowns : spc[s] = "panic"

(***************************************************************************)
(* New, were it to add one more to the WaitGroup than it starts workers.   *)
(***************************************************************************)
NewAddOne(n, ns) ==
    /\ maxGoroutines = n
    /\ names = ns
    /\ workClosed = FALSE
    /\ errClosed = FALSE
    /\ wg = n + 1
    /\ wpc = [w \in 1..n |-> "recv"]
    /\ wtask = [w \in 1..n |-> 0]
    /\ wval = [w \in 1..n |-> NoError]
    /\ cpc = [c \in 1..Len(ns) |-> "idle"]
    /\ cret = [c \in 1..Len(ns) |-> NoError]
    /\ spc = [s \in Shutdowns |-> "idle"]
    /\ accepted = [c \in 1..Len(ns) |-> 0]
    /\ finished = [c \in 1..Len(ns) |-> 0]
    /\ cfrom = [c \in 1..Len(ns) |-> "none"]

(***************************************************************************)
(* The state New returns: both channels open, the WaitGroup at             *)
(* maxGoroutines, every worker at the head of its range loop.              *)
(***************************************************************************)
New(n, ns) ==
    /\ maxGoroutines = n
    /\ names = ns
    /\ workClosed = FALSE
    /\ errClosed = FALSE
    /\ wg = n
    /\ wpc = [w \in 1..n |-> "recv"]
    /\ wtask = [w \in 1..n |-> 0]
    /\ wval = [w \in 1..n |-> NoError]
    /\ cpc = [c \in 1..Len(ns) |-> "idle"]
    /\ cret = [c \in 1..Len(ns) |-> NoError]
    /\ spc = [s \in Shutdowns |-> "idle"]
    /\ accepted = [c \in 1..Len(ns) |-> 0]
    /\ finished = [c \in 1..Len(ns) |-> 0]
    /\ cfrom = [c \in 1..Len(ns) |-> "none"]

(***************************************************************************)
(* A pool of any size up to MaxGoroutines and MaxCalls Run calls to be     *)
(* made, some with the name that fails.  Which call carries which name is  *)
(* a matter of numbering only, so the failing ones are numbered first.     *)
(***************************************************************************)
Init ==
    \E n \in 0..MaxGoroutines :
        \E j \in 0..MaxCalls :
            New(n, [c \in 1..MaxCalls |-> IF c <= j THEN "jason" ELSE "bob"])

(***************************************************************************)
(* main, lines 115-134: New(2), and one Run call for each of the names.    *)
(***************************************************************************)
InitMain == New(MainGoroutines, MainNames)

(***************************************************************************)
(* The use main makes of the pool, for any pool size and any names.        *)
(***************************************************************************)
InitDriver ==
    \E n \in 0..MaxGoroutines :
        \E k \in 0..MaxCalls :
            \E j \in 0..k :
                New(n, [c \in 1..k |-> IF c <= j THEN "jason" ELSE "bob"])

(***************************************************************************)
(* CallRun, were p.work buffered: the send completes with no worker        *)
(* receiving, and Run stands at its receive.                               *)
(***************************************************************************)
CallRunBuffered(c) ==
    /\ c \in Callers
    /\ cpc[c] = "idle"
    /\ cpc' = [cpc EXCEPT ![c] = "recv"]
    /\ UNCHANGED <<maxGoroutines, names, workClosed, errClosed, wg, wpc, wtask,
                   wval, cret, spc, accepted, finished, cfrom>>

(***************************************************************************)
(* Run, line 68: a goroutine enters Run and stands at the send on p.work.  *)
(***************************************************************************)
CallRun(c) ==
    /\ c \in Callers
    /\ cpc[c] = "idle"
    /\ cpc' = [cpc EXCEPT ![c] = "send"]
    /\ UNCHANGED <<maxGoroutines, names, workClosed, errClosed, wg, wpc, wtask,
                   wval, cret, spc, accepted, finished, cfrom>>

(***************************************************************************)
(* Handoff, were a worker to receive from p.work after Shutdown (Shutdown  *)
(* not closing p.work), so that a Run call after Shutdown reaches a        *)
(* worker.                                                                 *)
(***************************************************************************)
HandoffAfterClose(c, w) ==
    /\ c \in Callers
    /\ w \in Workers
    /\ cpc[c] = "send"
    /\ wpc[w] = "recv"
    /\ cpc' = [cpc EXCEPT ![c] = "recv"]
    /\ wpc' = [wpc EXCEPT ![w] = "task"]
    /\ wtask' = [wtask EXCEPT ![w] = c]
    /\ accepted' = [accepted EXCEPT ![c] = @ + 1]
    /\ UNCHANGED <<maxGoroutines, names, workClosed, errClosed, wg, wval, cret,
                   spc, finished, cfrom>>

(***************************************************************************)
(* Handoff, were the worker to start the task in a goroutine of its own    *)
(* (go w.Task()) and go back to the receive at once.                       *)
(***************************************************************************)
HandoffSpawn(c, w) ==
    /\ c \in Callers
    /\ w \in Workers
    /\ ~workClosed
    /\ cpc[c] = "send"
    /\ wpc[w] = "recv"
    /\ cpc' = [cpc EXCEPT ![c] = "recv"]
    /\ accepted' = [accepted EXCEPT ![c] = @ + 1]
    /\ UNCHANGED <<maxGoroutines, names, workClosed, errClosed, wg, wpc, wtask,
                   wval, cret, spc, finished, cfrom>>

(***************************************************************************)
(* Handoff, were p.work to let a send complete while the receiving worker  *)
(* still holds a task.                                                     *)
(***************************************************************************)
HandoffBusy(c, w) ==
    /\ c \in Callers
    /\ w \in Workers
    /\ ~workClosed
    /\ cpc[c] = "send"
    /\ wpc[w] \in {"recv", "task", "send"}
    /\ cpc' = [cpc EXCEPT ![c] = "recv"]
    /\ wpc' = [wpc EXCEPT ![w] = "task"]
    /\ wtask' = [wtask EXCEPT ![w] = c]
    /\ accepted' = [accepted EXCEPT ![c] = @ + 1]
    /\ UNCHANGED <<maxGoroutines, names, workClosed, errClosed, wg, wval, cret,
                   spc, finished, cfrom>>

(***************************************************************************)
(* Line 69 with line 53: the send p.work <- w of Run call c meets the      *)
(* receive of worker w's range loop; the worker goes on to call Task().    *)
(***************************************************************************)
Handoff(c, w) ==
    /\ c \in Callers
    /\ w \in Workers
    /\ ~workClosed
    /\ cpc[c] = "send"
    /\ wpc[w] = "recv"
    /\ cpc' = [cpc EXCEPT ![c] = "recv"]
    /\ wpc' = [wpc EXCEPT ![w] = "task"]
    /\ wtask' = [wtask EXCEPT ![w] = c]
    /\ accepted' = [accepted EXCEPT ![c] = @ + 1]
    /\ UNCHANGED <<maxGoroutines, names, workClosed, errClosed, wg, wval, cret,
                   spc, finished, cfrom>>

(***************************************************************************)
(* RunSendPanic, were Run to swallow the failure of its send and go on to  *)
(* the receive.                                                            *)
(***************************************************************************)
RunSendIgnored(c) ==
    /\ c \in Callers
    /\ workClosed
    /\ cpc[c] = "send"
    /\ cpc' = [cpc EXCEPT ![c] = "recv"]
    /\ UNCHANGED <<maxGoroutines, names, workClosed, errClosed, wg, wpc, wtask,
                   wval, cret, spc, accepted, finished, cfrom>>

(***************************************************************************)
(* Line 69: a send on the closed p.work panics, also when the sender was   *)
(* already blocked in the send when the channel was closed.                *)
(***************************************************************************)
RunSendPanic(c) ==
    /\ c \in Callers
    /\ workClosed
    /\ cpc[c] = "send"
    /\ cpc' = [cpc EXCEPT ![c] = "panic"]
    /\ UNCHANGED <<maxGoroutines, names, workClosed, errClosed, wg, wpc, wtask,
                   wval, cret, spc, accepted, finished, cfrom>>

(***************************************************************************)
(* TaskReturn, were the worker to drop the value of Task() (w.Task()       *)
(* without the send) and go back to its receive.                           *)
(***************************************************************************)
TaskReturnDrop(w) ==
    /\ w \in Workers
    /\ wpc[w] = "task"
    /\ wpc' = [wpc EXCEPT ![w] = "recv"]
    /\ wtask' = [wtask EXCEPT ![w] = 0]
    /\ finished' = [finished EXCEPT ![wtask[w]] = @ + 1]
    /\ UNCHANGED <<maxGoroutines, names, workClosed, errClosed, wg, wval, cpc,
                   cret, spc, accepted, cfrom>>

(***************************************************************************)
(* TaskReturn, were the worker to call Task() again after a failure.       *)
(***************************************************************************)
TaskReturnRetry(w) ==
    /\ w \in Workers
    /\ wpc[w] = "task"
    /\ wpc' = [wpc EXCEPT ![w] =
                  IF Task(names[wtask[w]]) = NoError \/ finished[wtask[w]] >= 1
                  THEN "send" ELSE "task"]
    /\ wval' = [wval EXCEPT ![w] = Task(names[wtask[w]])]
    /\ finished' = [finished EXCEPT ![wtask[w]] = @ + 1]
    /\ UNCHANGED <<maxGoroutines, names, workClosed, errClosed, wg, wtask, cpc,
                   cret, spc, accepted, cfrom>>

(***************************************************************************)
(* Line 54, right-hand side: w.Task() returns; the worker stands at the    *)
(* send on p.errChan with the value.                                       *)
(***************************************************************************)
TaskReturn(w) ==
    /\ w \in Workers
    /\ wpc[w] = "task"
    /\ wpc' = [wpc EXCEPT ![w] = "send"]
    /\ wval' = [wval EXCEPT ![w] = Task(names[wtask[w]])]
    /\ finished' = [finished EXCEPT ![wtask[w]] = @ + 1]
    /\ UNCHANGED <<maxGoroutines, names, workClosed, errClosed, wg, wtask, cpc,
                   cret, spc, accepted, cfrom>>

(***************************************************************************)
(* Deliver, were the worker to leave its loop after a failed task (send    *)
(* the error, call p.wg.Done() and end).                                   *)
(***************************************************************************)
DeliverFailStop(w, c) ==
    /\ w \in Workers
    /\ c \in Callers
    /\ ~errClosed
    /\ wpc[w] = "send"
    /\ cpc[c] = "recv"
    /\ cpc' = [cpc EXCEPT ![c] = "returned"]
    /\ cret' = [cret EXCEPT ![c] = wval[w]]
    /\ cfrom' = [cfrom EXCEPT ![c] = "worker"]
    /\ wpc' = [wpc EXCEPT ![w] = IF wval[w] = NoError THEN "recv" ELSE "done"]
    /\ wg' = IF wval[w] = NoError THEN wg ELSE wg - 1
    /\ wtask' = [wtask EXCEPT ![w] = 0]
    /\ wval' = [wval EXCEPT ![w] = NoError]
    /\ UNCHANGED <<maxGoroutines, names, workClosed, errClosed, spc,
                   accepted, finished>>

(***************************************************************************)
(* Deliver, were the worker to have no loop: after one task it calls       *)
(* p.wg.Done() and ends.                                                   *)
(***************************************************************************)
DeliverOnce(w, c) ==
    /\ w \in Workers
    /\ c \in Callers
    /\ ~errClosed
    /\ wpc[w] = "send"
    /\ cpc[c] = "recv"
    /\ cpc' = [cpc EXCEPT ![c] = "returned"]
    /\ cret' = [cret EXCEPT ![c] = wval[w]]
    /\ cfrom' = [cfrom EXCEPT ![c] = "worker"]
    /\ wpc' = [wpc EXCEPT ![w] = "done"]
    /\ wg' = wg - 1
    /\ wtask' = [wtask EXCEPT ![w] = 0]
    /\ wval' = [wval EXCEPT ![w] = NoError]
    /\ UNCHANGED <<maxGoroutines, names, workClosed, errClosed, spc,
                   accepted, finished>>

(***************************************************************************)
(* Deliver, were Run to drop the value it receives and return nil.         *)
(***************************************************************************)
DeliverNil(w, c) ==
    /\ w \in Workers
    /\ c \in Callers
    /\ ~errClosed
    /\ wpc[w] = "send"
    /\ cpc[c] = "recv"
    /\ cpc' = [cpc EXCEPT ![c] = "returned"]
    /\ cret' = [cret EXCEPT ![c] = NoError]
    /\ cfrom' = [cfrom EXCEPT ![c] = "worker"]
    /\ wpc' = [wpc EXCEPT ![w] = "recv"]
    /\ wtask' = [wtask EXCEPT ![w] = 0]
    /\ wval' = [wval EXCEPT ![w] = NoError]
    /\ UNCHANGED <<maxGoroutines, names, workClosed, errClosed, wg, spc,
                   accepted, finished>>

(***************************************************************************)
(* Line 54 with lines 70-73: the send p.errChan <- ... of worker w meets   *)
(* the receive of Run call c, whichever call that is; Run returns the      *)
(* value and the worker is back at the head of its loop.                   *)
(***************************************************************************)
Deliver(w, c) ==
    /\ w \in Workers
    /\ c \in Callers
    /\ ~errClosed
    /\ wpc[w] = "send"
    /\ cpc[c] = "recv"
    /\ cpc' = [cpc EXCEPT ![c] = "returned"]
    /\ cret' = [cret EXCEPT ![c] = wval[w]]
    /\ cfrom' = [cfrom EXCEPT ![c] = "worker"]
    /\ wpc' = [wpc EXCEPT ![w] = "recv"]
    /\ wtask' = [wtask EXCEPT ![w] = 0]
    /\ wval' = [wval EXCEPT ![w] = NoError]
    /\ UNCHANGED <<maxGoroutines, names, workClosed, errClosed, wg, spc,
                   accepted, finished>>

(***************************************************************************)
(* Lines 70-73: the receive from the closed p.errChan yields the zero      *)
(* value, a nil error, and Run returns it.                                 *)
(***************************************************************************)
RunRecvClosed(c) ==
    /\ c \in Callers
    /\ errClosed
    /\ cpc[c] = "recv"
    /\ cpc' = [cpc EXCEPT ![c] = "returned"]
    /\ cret' = [cret EXCEPT ![c] = NoError]
    /\ cfrom' = [cfrom EXCEPT ![c] = "closed"]
    /\ UNCHANGED <<maxGoroutines, names, workClosed, errClosed, wg, wpc, wtask,
                   wval, spc, accepted, finished>>

(***************************************************************************)
(* Line 54: the worker's send on the closed p.errChan panics.              *)
(***************************************************************************)
WorkerSendPanic(w) ==
    /\ w \in Workers
    /\ errClosed
    /\ wpc[w] = "send"
    /\ wpc' = [wpc EXCEPT ![w] = "panic"]
    /\ UNCHANGED <<maxGoroutines, names, workClosed, errClosed, wg, wtask, wval,
                   cpc, cret, spc, accepted, finished, cfrom>>

(***************************************************************************)
(* WorkerExit, were the worker to leave its loop as soon as it finds no    *)
(* task waiting (a receive that does not block), p.work closed or not.     *)
(***************************************************************************)
WorkerExitEager(w) ==
    /\ w \in Workers
    /\ wpc[w] = "recv"
    /\ wpc' = [wpc EXCEPT ![w] = "exit"]
    /\ UNCHANGED <<maxGoroutines, names, workClosed, errClosed, wg, wtask, wval,
                   cpc, cret, spc, accepted, finished, cfrom>>

(***************************************************************************)
(* Line 53: the range loop ends on the closed p.work.  The worker has left *)
(* its loop and stands before p.wg.Done().                                 *)
(***************************************************************************)
WorkerExit(w) ==
    /\ w \in Workers
    /\ workClosed
    /\ wpc[w] = "recv"
    /\ wpc' = [wpc EXCEPT ![w] = "exit"]
    /\ UNCHANGED <<maxGoroutines, names, workClosed, errClosed, wg, wtask, wval,
                   cpc, cret, spc, accepted, finished, cfrom>>

(***************************************************************************)
(* WorkerDone, were the goroutine to end without calling p.wg.Done().      *)
(***************************************************************************)
WorkerDoneNoDone(w) ==
    /\ w \in Workers
    /\ wpc[w] = "exit"
    /\ wpc' = [wpc EXCEPT ![w] = "done"]
    /\ UNCHANGED <<maxGoroutines, names, workClosed, errClosed, wg, wtask, wval,
                   cpc, cret, spc, accepted, finished, cfrom>>

(***************************************************************************)
(* Line 56: the worker calls p.wg.Done() and its goroutine ends.           *)
(***************************************************************************)
WorkerDone(w) ==
    /\ w \in Workers
    /\ wpc[w] = "exit"
    /\ wpc' = [wpc EXCEPT ![w] = "done"]
    /\ wg' = wg - 1
    /\ UNCHANGED <<maxGoroutines, names, workClosed, errClosed, wtask, wval, cpc,
                   cret, spc, accepted, finished, cfrom>>

(***************************************************************************)
(* CloseWork, were Shutdown to skip the close of a closed p.work and go    *)
(* on.                                                                     *)
(***************************************************************************)
CloseWorkAgain(s) ==
    /\ s \in Shutdowns
    /\ spc[s] = "idle"
    /\ \A t \in 1..(s - 1) : spc[t] # "idle"
    /\ workClosed' = TRUE
    /\ spc' = [spc EXCEPT ![s] = "closeErr"]
    /\ UNCHANGED <<maxGoroutines, names, errClosed, wg, wpc, wtask, wval, cpc,
                   cret, accepted, finished, cfrom>>

(***************************************************************************)
(* Lines 81-82: a goroutine calls Shutdown, which closes p.work.  The      *)
(* calls are numbered in the order in which they are made.                 *)
(***************************************************************************)
CloseWork(s) ==
    /\ s \in Shutdowns
    /\ spc[s] = "idle"
    /\ \A t \in 1..(s - 1) : spc[t] # "idle"
    /\ ~workClosed
    /\ workClosed' = TRUE
    /\ spc' = [spc EXCEPT ![s] = "closeErr"]
    /\ UNCHANGED <<maxGoroutines, names, errClosed, wg, wpc, wtask, wval, cpc,
                   cret, accepted, finished, cfrom>>

(***************************************************************************)
(* Lines 81-82: a goroutine calls Shutdown when p.work is closed already;  *)
(* the close of a closed channel panics.                                   *)
(***************************************************************************)
CloseWorkPanic(s) ==
    /\ s \in Shutdowns
    /\ spc[s] = "idle"
    /\ \A t \in 1..(s - 1) : spc[t] # "idle"
    /\ workClosed
    /\ spc' = [spc EXCEPT ![s] = "panic"]
    /\ UNCHANGED <<maxGoroutines, names, workClosed, errClosed, wg, wpc, wtask,
                   wval, cpc, cret, accepted, finished, cfrom>>

(***************************************************************************)
(* CloseErr, were Shutdown to make p.work anew for a later use of the      *)
(* pool.                                                                   *)
(***************************************************************************)
CloseErrReopen(s) ==
    /\ s \in Shutdowns
    /\ spc[s] = "closeErr"
    /\ ~errClosed
    /\ errClosed' = TRUE
    /\ workClosed' = FALSE
    /\ spc' = [spc EXCEPT ![s] = "wait"]
    /\ UNCHANGED <<maxGoroutines, names, wg, wpc, wtask, wval, cpc,
                   cret, accepted, finished, cfrom>>

(***************************************************************************)
(* Line 83: close(p.errChan).  Only the call that closed p.work gets here, *)
(* so p.errChan is still open.                                             *)
(***************************************************************************)
CloseErr(s) ==
    /\ s \in Shutdowns
    /\ spc[s] = "closeErr"
    /\ ~errClosed
    /\ errClosed' = TRUE
    /\ spc' = [spc EXCEPT ![s] = "wait"]
    /\ UNCHANGED <<maxGoroutines, names, workClosed, wg, wpc, wtask, wval, cpc,
                   cret, accepted, finished, cfrom>>

(***************************************************************************)
(* WaitReturn, were Shutdown to return without p.wg.Wait().                *)
(***************************************************************************)
WaitReturnNoWait(s) ==
    /\ s \in Shutdowns
    /\ spc[s] = "wait"
    /\ spc' = [spc EXCEPT ![s] = "returned"]
    /\ UNCHANGED <<maxGoroutines, names, workClosed, errClosed, wg, wpc, wtask,
                   wval, cpc, cret, accepted, finished, cfrom>>

(***************************************************************************)
(* Line 84: p.wg.Wait() returns when the counter is zero, and Shutdown     *)
(* returns.                                                                *)
(***************************************************************************)
WaitReturn(s) ==
    /\ s \in Shutdowns
    /\ spc[s] = "wait"
    /\ wg = 0
    /\ spc' = [spc EXCEPT ![s] = "returned"]
    /\ UNCHANGED <<maxGoroutines, names, workClosed, errClosed, wg, wpc, wtask,
                   wval, cpc, cret, accepted, finished, cfrom>>

(***************************************************************************)
(* Any use of the pool: Run and Shutdown called at any time, from any      *)
(* goroutine.                                                              *)
(***************************************************************************)
Next ==
    \/ \E c \in Callers : CallRun(c)
    \/ \E c \in Callers : \E w \in Workers : Handoff(c, w)
    \/ \E c \in Callers : RunSendPanic(c)
    \/ \E w \in Workers : TaskReturn(w)
    \/ \E w \in Workers : \E c \in Callers : Deliver(w, c)
    \/ \E c \in Callers : RunRecvClosed(c)
    \/ \E w \in Workers : WorkerSendPanic(w)
    \/ \E w \in Workers : WorkerExit(w)
    \/ \E w \in Workers : WorkerDone(w)
    \/ \E s \in Shutdowns : CloseWork(s)
    \/ \E s \in Shutdowns : CloseWorkPanic(s)
    \/ \E s \in Shutdowns : CloseErr(s)
    \/ \E s \in Shutdowns : WaitReturn(s)

Spec == Init /\ [][Next]_vars

(***************************************************************************)
(* main, lines 125-138: every Run call is made from a goroutine of its     *)
(* own that calls wg.Done() when Run has returned; main calls Shutdown,    *)
(* once, when wg.Wait() has returned, that is, when every Run call has     *)
(* returned.                                                               *)
(***************************************************************************)
AllReturned == \A c \in Callers : cpc[c] = "returned"

DriverShutdown ==
    /\ AllReturned
    /\ CloseWork(1)

NextDriver ==
    \/ \E c \in Callers : CallRun(c)
    \/ \E c \in Callers : \E w \in Workers : Handoff(c, w)
    \/ \E w \in Workers : TaskReturn(w)
    \/ \E w \in Workers : \E c \in Callers : Deliver(w, c)
    \/ \E w \in Workers : WorkerExit(w)
    \/ \E w \in Workers : WorkerDone(w)
    \/ DriverShutdown
    \/ CloseErr(1)
    \/ WaitReturn(1)

SpecDriver == InitDriver /\ [][NextDriver]_vars

SpecMain == InitMain /\ [][NextDriver]_vars

(***************************************************************************)
(* Scheduling: the Go scheduler runs every runnable goroutine, and a       *)
(* channel operation whose partner is ready completes.  main starts every  *)
(* goroutine of its loop.                                                  *)
(***************************************************************************)
WorkerStep(w) ==
    \/ TaskReturn(w)
    \/ WorkerExit(w)
    \/ WorkerDone(w)
    \/ \E c \in Callers : Handoff(c, w)
    \/ \E c \in Callers : Deliver(w, c)

ShutdownStep ==
    \/ DriverShutdown
    \/ CloseErr(1)
    \/ WaitReturn(1)

Fairness ==
    /\ \A c \in 1..MaxCalls : WF_vars(CallRun(c))
    /\ \A w \in 1..MaxGoroutines : WF_vars(WorkerStep(w))
    /\ WF_vars(ShutdownStep)

FairDriver == InitDriver /\ [][NextDriver]_vars /\ Fairness

(***************************************************************************)
(* Counting.                                                               *)
(***************************************************************************)
RECURSIVE SumTo(_, _)
SumTo(f, n) == IF n = 0 THEN 0 ELSE f[n] + SumTo(f, n - 1)

\* the number of Task() executions in progress
NumExecuting == SumTo([c \in Callers |-> accepted[c] - finished[c]], Len(names))

\* the number of handoffs made and of results received from a worker by a Run call
NumHandedOff == SumTo(accepted, Len(names))

NumReceived == Cardinality({c \in Callers : cfrom[c] = "worker"})

CallersAt(pc) == {c \in Callers : cpc[c] = pc}

WorkersAt(pc) == {w \in Workers : wpc[w] = pc}

(***************************************************************************)
(* C1.  For every pool size N >= 1 and any number of concurrent Run calls, *)
(* at most N Task() executions are in progress in any reachable state; a   *)
(* pool of size 1 never has two in progress.                               *)
(***************************************************************************)
C1_AtMostNExecuting ==
    maxGoroutines >= 1 => NumExecuting <= maxGoroutines

\* New(1), three Run calls made: one task done, one executing, one caller
\* still blocked in its send
C1_Witness ==
    /\ maxGoroutines = 1
    /\ CallersAt("idle") = {}
    /\ CallersAt("send") # {}
    /\ NumExecuting = 1
    /\ \E c \in Callers : finished[c] = 1

(***************************************************************************)
(* C2.  The value a Run call returns is the outcome of the Task() of the   *)
(* Worker this very call submitted.                                        *)
(***************************************************************************)
C2_OwnOutcome ==
    \A c \in Callers : cpc[c] = "returned" => cret[c] = Task(names[c])

(***************************************************************************)
(* C3.  A Run call that has returned has had its own Task() finish.        *)
(***************************************************************************)
C3_ReturnAfterOwnTask ==
    \A c \in Callers : cpc[c] = "returned" => finished[c] >= 1

(***************************************************************************)
(* C4.  Each submitted task is received by exactly one worker and executed *)
(* exactly once: it is never received twice, never executed twice, never   *)
(* held by two workers, and a Run call past its send has had its task      *)
(* received.                                                               *)
(***************************************************************************)
C4_ExactlyOnce ==
    \A c \in Callers :
        /\ accepted[c] <= 1
        /\ finished[c] <= accepted[c]
        /\ Cardinality({w \in Workers : wtask[w] = c}) <= 1
        /\ cpc[c] \in {"recv", "returned"} => accepted[c] = 1
        /\ cpc[c] \in {"idle", "send", "panic"} => accepted[c] = 0

\* a failed task has been executed, its worker has gone on to another task
C4_Witness ==
    \E c \in Callers :
        /\ Task(names[c]) = InvalidName
        /\ finished[c] = 1
        /\ \A w \in Workers : wtask[w] # c
        /\ \E d \in Callers : d # c /\ finished[d] = 1
        /\ WorkersAt("task") # {}

(***************************************************************************)
(* C5.  Admission control without buffering: the tasks handed off whose    *)
(* result no Run call has received yet number at most N, and so do the Run *)
(* calls past their send that have not returned; hence of the Run calls in *)
(* progress all but N at most are blocked in their send.  A send completes *)
(* only in a step in which an idle worker receives.                        *)
(***************************************************************************)
C5_InFlight ==
    /\ NumHandedOff - NumReceived <= maxGoroutines
    /\ Cardinality(CallersAt("recv")) <= maxGoroutines
    /\ Cardinality(CallersAt("send")) >=
           Cardinality(CallersAt("send") \cup CallersAt("recv")) - maxGoroutines

C5_HandoffStep ==
    \A c \in Callers :
        (cpc[c] = "send" /\ cpc'[c] = "recv") =>
            \E w \in Workers : wpc[w] = "recv" /\ wpc'[w] = "task" /\ wtask'[w] = c

C5_AdmissionControl == [](C5_InFlight) /\ [][C5_HandoffStep]_vars

\* more Run calls in progress than workers: every worker holds a task and
\* the other callers are blocked in their send
C5_Witness ==
    /\ maxGoroutines >= 1
    /\ WorkersAt("recv") = {}
    /\ Cardinality(CallersAt("recv")) = maxGoroutines
    /\ NumHandedOff - NumReceived = maxGoroutines
    /\ Cardinality(CallersAt("send")) >= 1
    /\ ~workClosed

(***************************************************************************)
(* C6.  No task is lost: for N >= 1, as main uses the pool and under fair  *)
(* scheduling, every Run call that was made returns, and when all K calls  *)
(* have returned exactly K Task() executions have completed, one of each   *)
(* task.                                                                   *)
(***************************************************************************)
C6_NoTaskLost ==
    /\ \A c \in 1..MaxCalls :
           (maxGoroutines >= 1 /\ c \in Callers /\ cpc[c] = "send")
               ~> (c \in Callers /\ cpc[c] = "returned")
    /\ [](AllReturned =>
             /\ SumTo(finished, Len(names)) = Len(names)
             /\ \A c \in Callers : finished[c] = 1)

\* more calls than workers, all of them returned, Shutdown not yet called
C6_Witness ==
    /\ maxGoroutines >= 1
    /\ Len(names) > maxGoroutines
    /\ AllReturned
    /\ ~workClosed
    /\ SumTo(finished, Len(names)) = Len(names)

(***************************************************************************)
(* C7.  Outcome conservation, as main uses the pool: when all Run calls    *)
(* have returned, the values they returned are, counted with multiplicity, *)
(* the values the Task() executions produced; with New(2) and the seven    *)
(* names of main exactly one Run call returns the error and six return     *)
(* nil.                                                                    *)
(***************************************************************************)
Returned(v) == {c \in Callers : cpc[c] = "returned" /\ cret[c] = v}

Produced(v) == {c \in Callers : Task(names[c]) = v}

C7_OutcomeConservation ==
    AllReturned =>
        /\ \A v \in Outcomes : Cardinality(Returned(v)) = Cardinality(Produced(v))
        /\ (names = MainNames =>
               /\ Cardinality(Returned(InvalidName)) = 1
               /\ Cardinality(Returned(NoError)) = 6)

\* main has run to its end, and the one error went to the Run call of another name
C7_Witness ==
    /\ names = MainNames
    /\ maxGoroutines = MainGoroutines
    /\ AllReturned
    /\ spc[1] = "returned"
    /\ \E c \in Callers : cret[c] = InvalidName /\ names[c] # "jason"

(***************************************************************************)
(* C8.  Shutdown returns only after all N workers have left their loop:    *)
(* when a Shutdown call has returned, no worker is waiting, executing or   *)
(* delivering, and the WaitGroup counter is zero.                          *)
(***************************************************************************)
C8_ShutdownReturnedAllExited ==
    \A s \in Shutdowns :
        spc[s] = "returned" =>
            /\ \A w \in Workers : wpc[w] = "done"
            /\ wg = 0

\* Shutdown has returned from a pool of two workers that has executed a task
C8_Witness ==
    /\ maxGoroutines = 2
    /\ spc[1] = "returned"
    /\ \E c \in Callers : finished[c] = 1 /\ cfrom[c] = "worker"

(***************************************************************************)
(* C9.  Shutdown terminates: called once, after every Run call has         *)
(* returned, under fair scheduling every worker sees p.work closed and     *)
(* ends, and Shutdown returns.                                             *)
(***************************************************************************)
C9_ShutdownTerminates ==
    (spc[1] = "closeErr")
        ~> (spc[1] = "returned" /\ \A w \in Workers : wpc[w] = "done")

\* Shutdown has returned after every worker of a full pool has worked
C9_Witness ==
    /\ maxGoroutines = MaxGoroutines
    /\ Len(names) = MaxCalls
    /\ AllReturned
    /\ spc[1] = "returned"
    /\ WorkersAt("done") = Workers

(***************************************************************************)
(* C10.  Draining: when Shutdown is called while tasks are in flight, no   *)
(* worker faults while delivering its result and every Run call that       *)
(* returns has received an outcome a worker produced.                      *)
(***************************************************************************)
C10_Draining ==
    /\ \A w \in Workers : wpc[w] # "panic"
    /\ \A c \in Callers : cpc[c] = "returned" => cfrom[c] = "worker"

(***************************************************************************)
(* C11.  A Run call started after Shutdown has closed p.work is rejected   *)
(* rather than left hanging: its task is never received or executed by a   *)
(* worker, the call is not blocked (while the process lives its send can   *)
(* fail at once), and the only way it goes on is the panic of its send, in *)
(* the calling goroutine.                                                  *)
(***************************************************************************)
C11_LateRunState ==
    \A c \in Callers :
        (workClosed /\ cpc[c] \in {"idle", "send"}) =>
            /\ accepted[c] = 0
            /\ finished[c] = 0
            /\ \A w \in Workers : wtask[w] # c
            /\ cpc[c] = "send" => ENABLED RunSendPanic(c)

C11_LateRunStep ==
    \A c \in Callers :
        (workClosed /\ cpc[c] \in {"idle", "send"}) =>
            /\ workClosed'
            /\ accepted'[c] = 0
            /\ cpc[c] = "idle" => cpc'[c] \in {"idle", "send"}
            /\ cpc[c] = "send" => cpc'[c] \in {"send", "panic"}

C11_LateRunRejected == [](C11_LateRunState) /\ [][C11_LateRunStep]_vars

\* Shutdown has returned, and a Run call has panicked in its send without
\* its task having been received
C11_Witness ==
    /\ maxGoroutines >= 1
    /\ spc[1] = "returned"
    /\ \E c \in Callers : cpc[c] = "panic" /\ accepted[c] = 0
    /\ \E d \in Callers : cpc[d] = "returned" /\ cfrom[d] = "worker"

(***************************************************************************)
(* C12.  A second Shutdown call is a detected error, never a silent        *)
(* re-entry: at most one Shutdown call ever gets past close(p.work); a     *)
(* call made when p.work is closed, also after the first call has          *)
(* returned, is not blocked and can only panic, in the calling goroutine,  *)
(* closing nothing and waiting on nothing.                                 *)
(***************************************************************************)
PastClose == {s \in Shutdowns : spc[s] \in {"closeErr", "wait", "returned"}}

C12_SecondShutdownState ==
    /\ Cardinality(PastClose) <= 1
    /\ \A s \in Shutdowns :
           (workClosed /\ spc[s] = "idle"
                /\ \A t \in 1..(s - 1) : spc[t] # "idle")
               => ENABLED CloseWorkPanic(s)

C12_SecondShutdownStep ==
    \A s \in Shutdowns :
        (workClosed /\ spc[s] = "idle") =>
            /\ spc'[s] \in {"idle", "panic"}
            /\ spc'[s] = "panic" =>
                   /\ workClosed' = workClosed
                   /\ errClosed' = errClosed
                   /\ wg' = wg

C12_SecondShutdownDetected ==
    [](C12_SecondShutdownState) /\ [][C12_SecondShutdownStep]_vars

\* the first Shutdown call has returned and the second has panicked
C12_Witness ==
    /\ spc[1] = "returned"
    /\ spc[2] = "panic"
    /\ maxGoroutines >= 1

(***************************************************************************)
(* C13.  Misuse does not corrupt the pool: a Run call after Shutdown and a *)
(* second Shutdown call fault in the misusing goroutine alone.  In every   *)
(* use of the pool, the step in which such a call faults changes nothing   *)
(* of the pool: no worker faults or moves in it, the set of workers that   *)
(* have left their loop, the WaitGroup counter and the channels are as     *)
(* before, and so is every other call.  The call never reaches a worker:   *)
(* a pool shut down with every worker at its receive or out of its loop    *)
(* stays so under every step, misuse or not, and in such a pool each       *)
(* worker still counted by the WaitGroup has a step towards Done(), so     *)
(* the counter is never left unable to reach zero.  This holds also while  *)
(* other goroutines run on after the fault.                                *)
(***************************************************************************)
C13_ShutDownIdle ==
    /\ workClosed
    /\ \A w \in Workers : wpc[w] \in {"recv", "exit", "done"}

C13_PoolIntact ==
    C13_ShutDownIdle =>
        /\ wg = Cardinality(Workers \ WorkersAt("done"))
        /\ \A w \in WorkersAt("recv") : ENABLED WorkerExit(w)
        /\ \A w \in WorkersAt("exit") : ENABLED WorkerDone(w)

C13_MisuseStep ==
    /\ \A c \in Callers :
           (cpc[c] # "panic" /\ cpc'[c] = "panic") =>
               /\ workClosed
               /\ UNCHANGED <<wpc, wtask, wval, wg, workClosed, errClosed, spc>>
               /\ \A d \in Callers \ {c} : cpc'[d] = cpc[d]
    /\ \A s \in Shutdowns :
           (spc[s] # "panic" /\ spc'[s] = "panic") =>
               /\ workClosed
               /\ UNCHANGED <<wpc, wtask, wval, wg, workClosed, errClosed, cpc>>
               /\ \A r \in Shutdowns \ {s} : spc'[r] = spc[r]
    /\ C13_ShutDownIdle => C13_ShutDownIdle'

C13_MisuseKeepsPool == [](C13_PoolIntact) /\ [][C13_MisuseStep]_vars

\* both misuses have faulted, a Run call on the closed p.work and a second
\* Shutdown call, on a pool whose tasks were all delivered; of its two
\* workers one has called Done() and the other stands at its receive, and
\* the first Shutdown call waits
C13_Witness ==
    /\ maxGoroutines = 2
    /\ \E c \in Callers : cpc[c] = "panic" /\ accepted[c] = 0
    /\ spc[1] = "wait"
    /\ spc[2] = "panic"
    /\ C13_ShutDownIdle
    /\ wg = 1
    /\ WorkersAt("recv") # {}
    /\ \E d \in Callers : cpc[d] = "returned" /\ finished[d] = 1

(***************************************************************************)
(* C14.  The guarantee of the comments of Run and main: when Run has       *)
(* returned, its Worker has been received from p.work by a worker, which   *)
(* is executing its Task() or has executed it; it is never still waiting   *)
(* to be received.  (It holds whether or not Shutdown has been called.)    *)
(***************************************************************************)
C14_ReturnedIsHandled ==
    \A c \in Callers :
        cpc[c] = "returned" =>
            /\ accepted[c] >= 1
            /\ \/ finished[c] >= 1
               \/ \E w \in Workers : wtask[w] = c /\ wpc[w] = "task"

\* Shutdown not called: a Run call has returned while its own Task() is still
\* being executed
C14_Witness ==
    /\ ~workClosed
    /\ \E c \in Callers :
           /\ cpc[c] = "returned"
           /\ finished[c] = 0
           /\ \E w \in Workers : wtask[w] = c /\ wpc[w] = "task"

(***************************************************************************)
(* C15.  Workers block only while idle: as long as Shutdown has not been   *)
(* called, the Run calls standing at their receive from p.errChan are as   *)
(* many as the workers holding a task (executing it or standing at the     *)
(* send of its result), so a worker standing at its send always has a Run  *)
(* call to receive from it: its send can complete.                         *)
(***************************************************************************)
C15_WorkersBlockOnlyIdle ==
    ~workClosed =>
        /\ Cardinality(CallersAt("recv")) =
               Cardinality(WorkersAt("task") \cup WorkersAt("send"))
        /\ \A w \in WorkersAt("send") :
               /\ CallersAt("recv") # {}
               /\ \E c \in Callers : ENABLED Deliver(w, c)

\* both workers hold a task, one of them at its send, and two Run calls wait
\* for a result
C15_Witness ==
    /\ ~workClosed
    /\ maxGoroutines = 2
    /\ WorkersAt("send") # {}
    /\ WorkersAt("task") # {}
    /\ Cardinality(CallersAt("recv")) = 2
    /\ CallersAt("returned") # {}

(***************************************************************************)
(* C16.  A task failure is not an event of the pool: the step in which a   *)
(* worker delivers a failure takes it back to the head of its loop, as     *)
(* after a success, and leaves the number of workers, the channels and the *)
(* WaitGroup as they were; the worker can receive the next task; and as    *)
(* long as Shutdown has not been called no goroutine has faulted and all N *)
(* workers are in their loop, whatever the tasks returned.                 *)
(***************************************************************************)
C16_NoFatalState ==
    /\ ~workClosed =>
           /\ ~Panicked
           /\ wg = maxGoroutines
           /\ \A w \in Workers : wpc[w] \in {"recv", "task", "send"}
    /\ \A w \in WorkersAt("recv") : \A c \in CallersAt("send") :
           ~workClosed => ENABLED Handoff(c, w)

C16_DeliverFailureStep ==
    \A w \in Workers :
        (wpc[w] = "send" /\ wval[w] = InvalidName /\ ~errClosed /\ wpc'[w] # "send") =>
            /\ wpc'[w] = "recv"
            /\ wtask'[w] = 0
            /\ wg' = wg
            /\ workClosed' = workClosed
            /\ errClosed' = errClosed
            /\ maxGoroutines' = maxGoroutines
            /\ \E c \in Callers :
                   cpc[c] = "recv" /\ cpc'[c] = "returned" /\ cret'[c] = InvalidName

C16_FailureNotPoolEvent == [](C16_NoFatalState) /\ [][C16_DeliverFailureStep]_vars

\* the one worker has delivered a failure and is executing the next task
C16_Witness ==
    /\ maxGoroutines = 1
    /\ ~workClosed
    /\ \E c \in Callers : cpc[c] = "returned" /\ cret[c] = InvalidName
    /\ WorkersAt("task") # {}
    /\ wg = 1

(***************************************************************************)
(* C17.  The lifecycle is one-way: once Shutdown has closed p.work the     *)
(* channels stay closed, no worker receives a task again, no worker that   *)
(* has ended becomes active again, the WaitGroup counter does not rise and *)
(* a Shutdown call that has returned stays returned: no step leads from    *)
(* Draining or Terminated back to Running.                                 *)
(***************************************************************************)
C17_OneWayStep ==
    workClosed =>
        /\ workClosed'
        /\ errClosed => errClosed'
        /\ \A c \in Callers : accepted'[c] = accepted[c]
        /\ \A w \in Workers :
               /\ wpc[w] # "task" => wpc'[w] # "task"
               /\ wpc[w] = "exit" => wpc'[w] \in {"exit", "done"}
               /\ wpc[w] = "done" => wpc'[w] = "done"
        /\ wg' <= wg
        /\ \A s \in Shutdowns : spc[s] = "returned" => spc'[s] = "returned"

C17_LifecycleOneWay == [][C17_OneWayStep]_vars

\* Draining: p.work is closed, one worker has ended, the other has not, and a
\* Run call stands at its send without being received
C17_Witness ==
    /\ workClosed
    /\ WorkersAt("done") # {}
    /\ WorkersAt("recv") # {}
    /\ \E c \in CallersAt("send") : accepted[c] = 0
    /\ \E d \in Callers : finished[d] = 1

\* the workers that have left their loop
C18_Exited == WorkersAt("exit") \cup WorkersAt("done")

(***************************************************************************)
(* C18, as the claim states it.  Barrier accounting: in every reachable    *)
(* state the WaitGroup counter is N minus the number of workers that have  *)
(* left their loop, it is never negative, and it is zero exactly when all  *)
(* N workers have left their loop.                                         *)
(***************************************************************************)
C18_CounterCountsExited ==
    /\ wg = maxGoroutines - Cardinality(C18_Exited)
    /\ wg >= 0
    /\ wg = 0 <=> C18_Exited = Workers

(***************************************************************************)
(* C18, amended.  The WaitGroup counter is N minus the number of workers   *)
(* that have called Done(); a worker calls Done() after it has left its    *)
(* loop, so the counter is at least N minus the number of workers that     *)
(* have left their loop, and it is above it while a worker stands between  *)
(* the end of its loop and Done().  It is never negative and it is zero    *)
(* exactly when all N workers have called Done().  A worker leaves its     *)
(* loop only when p.work is closed.  The counter changes only by a         *)
(* worker's Done(): by one, in the step in which that worker, out of its   *)
(* loop, ends; a worker that has ended stays ended, so each worker         *)
(* decrements it exactly once.                                             *)
(***************************************************************************)
C18_BarrierState ==
    /\ wg = maxGoroutines - Cardinality(WorkersAt("done"))
    /\ wg >= maxGoroutines - Cardinality(C18_Exited)
    /\ WorkersAt("exit") # {} => wg > maxGoroutines - Cardinality(C18_Exited)
    /\ wg >= 0
    /\ wg = 0 <=> \A w \in Workers : wpc[w] = "done"
    /\ C18_Exited # {} => workClosed

C18_BarrierStep ==
    /\ wg' # wg =>
           /\ wg' = wg - 1
           /\ workClosed
           /\ \E w \in Workers :
                  /\ wpc[w] = "exit"
                  /\ wpc'[w] = "done"
                  /\ \A v \in Workers \ {w} : wpc'[v] = wpc[v]
    /\ \A w \in Workers :
           /\ (wpc[w] # "done" /\ wpc'[w] = "done") => (wpc[w] = "exit" /\ wg' = wg - 1)
           /\ (wpc[w] # "exit" /\ wpc'[w] = "exit") =>
                  (wpc[w] = "recv" /\ workClosed /\ wg' = wg)
           /\ wpc[w] = "done" => wpc'[w] = "done"

C18_BarrierAccounting == [](C18_BarrierState) /\ [][C18_BarrierStep]_vars

\* Shutdown waits: of two workers one has called Done() and the other has
\* left its loop and has not yet called Done(), so it is still counted
C18_Witness ==
    /\ maxGoroutines = 2
    /\ wg = 1
    /\ Cardinality(WorkersAt("done")) = 1
    /\ Cardinality(WorkersAt("exit")) = 1
    /\ \E s \in Shutdowns : spc[s] = "wait"

(***************************************************************************)
(* C19.  A pool of size 0: there is no worker, so no Run call ever gets    *)
(* past its send or returns and no task is ever executed; while the pool   *)
(* is not shut down a Run call in its send has no step it can take; the    *)
(* WaitGroup counter is zero throughout, so a Shutdown call that has       *)
(* closed the channels returns without waiting.                            *)
(***************************************************************************)
C19_PoolOfSizeZero ==
    maxGoroutines = 0 =>
        /\ Workers = {}
        /\ wg = 0
        /\ \A c \in Callers :
               /\ cpc[c] \in {"idle", "send", "panic"}
               /\ accepted[c] = 0
               /\ finished[c] = 0
               /\ (cpc[c] = "send" /\ ~workClosed) =>
                      /\ ~ENABLED RunSendPanic(c)
                      /\ ~ENABLED (\E w \in Workers : Handoff(c, w))
        /\ \A s \in Shutdowns :
               spc[s] = "wait" => ENABLED WaitReturn(s)

\* no worker: every Run call made is still in its send, and Shutdown has
\* returned
C19_Witness ==
    /\ maxGoroutines = 0
    /\ CallersAt("send") = Callers
    /\ Callers # {}
    /\ spc[1] = "returned"

====
